---- MODULE Spec2Model ----
(***************************************************************************)
(* Media ingestion, retrieval and cleanup of the Flask music application:  *)
(* the upload handler (app.py), process_track_upload,                      *)
(* get_file_stream_response and storage_delete (utils.py) over the three   *)
(* storage modes of config.py.                                             *)
(*                                                                         *)
(* Strings that the code inspects character by character (file names,      *)
(* extensions) are sequences of one-character strings.  Paths, keys and    *)
(* byte strings are sequences of strings; None is the empty sequence.      *)
(***************************************************************************)
EXTENDS Integers, Sequences, FiniteSets, TLC

VARIABLES
    mode,             \* app.config["STORAGE_MODE"]
    previewDuration,  \* app.config["PREVIEW_DURATION"], seconds
    pc,               \* position of each upload request in the handler
    inp,              \* the submitted file of each request
    track,            \* the in-memory Track object of each request
    sess,             \* state of the Track object in the request's db session
    rows,             \* committed rows of the tracks table
    files,            \* local filesystem: path -> bytes
    bucket,           \* the S3 bucket: key -> bytes
    calls,            \* storage backend calls issued by each request, in order
    readBytes,        \* whether file_storage.read() was called by the request
    work,             \* decoded audio and encoded bytes held by the ingestion
    sdCalls,          \* number of storage_delete calls made on the request's track
    sdRaised,         \* whether some storage_delete call propagated an exception
    excAt,            \* where the exception handled by the request was raised
    resp,             \* the last response of get_file_stream_response
    follows,          \* committed rows of the follows table
    nextFollowId,     \* the next autoincrement id of the follows table
    fpc               \* position of each follow or unfollow request

uploadVars == <<mode, previewDuration, pc, inp, track, sess, rows, files, bucket,
                calls, readBytes, work, sdCalls, sdRaised, excAt, resp>>

followVars == <<follows, nextFollowId, fpc>>

vars == <<uploadVars, followVars>>

----------------------------------------------------------------------------
(* Bounds *)

NReq == 2
MaxPreviewSeconds == 3
NUsers == 2
MaxFollowRows == 3

Requests == 1..NReq

(* Configuration, config.py *)

PREVIEW_DURATION == 30

Backends == {"local", "s3", "postgres"}
StorageModes == Backends \cup {"filesystem"}

ALLOWED_EXTENSIONS ==
    { <<"m","p","3">>, <<"w","a","v">>, <<"f","l","a","c">>,
      <<"m","4","a">>, <<"o","g","g">>, <<"a","a","c">> }

----------------------------------------------------------------------------
(* Values *)

Null == <<>>

Truthy(x) == x # Null

Or(x, y) == IF Truthy(x) THEN x ELSE y

Corrupt == 0 - 1

----------------------------------------------------------------------------
(* str methods used on file names *)

LowerCh(c) ==
    CASE c = "M" -> "m"
      [] c = "P" -> "p"
      [] c = "E" -> "e"
      [] c = "X" -> "x"
      [] OTHER -> c

lower(s) == [i \in 1..Len(s) |-> LowerCh(s[i])]

HasDot(s) == \E i \in 1..Len(s) : s[i] = "."

LastDot(s) == CHOOSE i \in 1..Len(s) : s[i] = "." /\ \A j \in (i+1)..Len(s) : s[j] # "."

(* s.rsplit(".", 1): a one-element list when s has no dot *)
rsplit(s) ==
    IF HasDot(s)
    THEN << SubSeq(s, 1, LastDot(s) - 1), SubSeq(s, LastDot(s) + 1, Len(s)) >>
    ELSE << s >>

(* the extension taken after the first dot: filename.split(".")[1] *)
allowed_file_first_dot(filename, allowed) ==
    /\ HasDot(filename)
    /\ LET i == CHOOSE k \in 1..Len(filename) :
                   filename[k] = "." /\ \A j \in 1..(k-1) : filename[j] # "."
           rest == SubSeq(filename, i + 1, Len(filename))
           j == IF HasDot(rest)
                THEN CHOOSE k \in 1..Len(rest) : rest[k] = "." /\ \A x \in 1..(k-1) : rest[x] # "."
                ELSE Len(rest) + 1
       IN  lower(SubSeq(rest, 1, j - 1)) \in allowed

allowed_file(filename, allowed) ==
    HasDot(filename) /\ lower(rsplit(filename)[2]) \in allowed

(* werkzeug secure_filename on names over letters, digits and dots: leading *)
(* and trailing dots are stripped                                          *)
RECURSIVE StripDots(_)
StripDots(s) ==
    IF s = <<>> THEN s
    ELSE IF Head(s) = "." THEN StripDots(Tail(s))
    ELSE IF s[Len(s)] = "." THEN StripDots(SubSeq(s, 1, Len(s) - 1))
    ELSE s

secure_filename(s) == StripDots(s)

----------------------------------------------------------------------------
(* pydub AudioSegment: an audio is its length in milliseconds; bytes that   *)
(* do not decode are Corrupt                                                *)

Min(a, b) == IF a < b THEN a ELSE b

(* AudioSegment.__getitem__ with a slice [:stop] on a segment of length len *)
(* (start 0): the end is capped at the length, a negative end counts from *)
(* the end of the segment                                                 *)
SliceTo(len, stop) ==
    LET end == Min(stop, len)
        pos == IF end < 0 THEN len + end ELSE end
    IN  IF pos < 0 THEN 0 ELSE pos

(* the configured seconds used as milliseconds *)
preview_len_seconds(P) == P

preview_len(P) == P * 1000

preview_seg(duration_ms, P) == SliceTo(duration_ms, preview_len(P))

(* the upload's bytes, and AudioSegment.export(format="mp3") of a segment  *)
(* of seg_ms milliseconds cut from the audio of src_ms milliseconds        *)
orig_bytes(src_ms) == << "upload", ToString(src_ms) >>

export_mp3(src_ms, seg_ms) == << "mp3", ToString(src_ms), ToString(seg_ms) >>

----------------------------------------------------------------------------
(* models.Track: the columns the pipeline reads and writes *)

NoTrack == [exists |-> FALSE]

NewTrack(owner) ==
    [ exists |-> TRUE,
      owner_id |-> owner,
      duration |-> 0,
      mime_type |-> "audio/mpeg",
      original_filename |-> Null,
      file_path |-> Null, mp3_path |-> Null, preview_path |-> Null,
      original_file |-> Null, mp3_file |-> Null, preview_file |-> Null,
      s3_key |-> Null, s3_mp3_key |-> Null, s3_preview_key |-> Null ]

LocalSet(t) == { t.file_path, t.mp3_path, t.preview_path }
BlobSet(t)  == { t.original_file, t.mp3_file, t.preview_file }
S3Set(t)    == { t.s3_key, t.s3_mp3_key, t.s3_preview_key }

----------------------------------------------------------------------------
(* storage names built by process_track_upload *)

uuid4(r, k) == "uuid" \o ToString(r) \o "_" \o ToString(k)

(* a path named after the role alone, without the uuid *)
LocalPath_no_uuid(owner, u, suffix, ext) == << "uploads", owner, suffix >> \o ext

LocalPath(owner, u, suffix, ext) == << "uploads", owner, u \o suffix >> \o ext

S3Key(owner, u, name, ext) == << "tracks", owner, u, name >> \o ext

(* the path or key of the n-th write (1 original, 2 stream, 3 preview) *)
WriteTarget(m, r, owner, ext, n) ==
    IF m = "s3"
    THEN CASE n = 1 -> S3Key(owner, uuid4(r, 1), "/original.", ext)
           [] n = 2 -> S3Key(owner, uuid4(r, 1), "/stream.mp3", <<>>)
           [] n = 3 -> S3Key(owner, uuid4(r, 1), "/preview.mp3", <<>>)
    ELSE CASE n = 1 -> LocalPath(owner, uuid4(r, 1), "_orig.", ext)
           [] n = 2 -> LocalPath(owner, uuid4(r, 2), "_stream.mp3", <<>>)
           [] n = 3 -> LocalPath(owner, uuid4(r, 3), "_preview.mp3", <<>>)

(* a dict/filesystem write: create or overwrite *)
Put(store, k, v) == [x \in DOMAIN store \cup {k} |-> IF x = k THEN v ELSE store[x]]

Remove(store, k) == [x \in DOMAIN store \ {k} |-> store[x]]

EmptyStore == [x \in {} |-> Null]

----------------------------------------------------------------------------
(* utils.storage_delete *)

DeleteCall(k, succeeded) == [op |-> "delete", loc |-> k, ok |-> succeeded]

PutCall(k, succeeded) == [op |-> "put", loc |-> k, ok |-> succeeded]

(* The loop over the locators ps of one backend.  A local path is removed  *)
(* when it is set and exists; an S3 key is deleted when it is set (deleting *)
(* a missing key succeeds).  n deletes were issued before; the d-th delete  *)
(* issued fails and raises (d = 0: none fails).                             *)
RECURSIVE DeleteEach(_, _, _, _, _)
DeleteEach(ps, store, mustExist, n, d) ==
    IF ps = <<>> THEN [store |-> store, log |-> <<>>, exc |-> FALSE]
    ELSE LET k == Head(ps) IN
         IF Truthy(k) /\ (mustExist => k \in DOMAIN store)
         THEN IF n + 1 = d
              THEN [store |-> store, log |-> << DeleteCall(k, FALSE) >>, exc |-> TRUE]
              ELSE LET rest == DeleteEach(Tail(ps),
                                          IF k \in DOMAIN store THEN Remove(store, k) ELSE store,
                                          mustExist, n + 1, d)
                   IN  [store |-> rest.store,
                        log |-> << DeleteCall(k, TRUE) >> \o rest.log,
                        exc |-> rest.exc]
         ELSE DeleteEach(Tail(ps), store, mustExist, n, d)

(* the body of the try block: the branch taken for mode m *)
storage_delete_try(t, m, fs, bk, d) ==
    IF m = "local"
    THEN LET res == DeleteEach(<< t.file_path, t.mp3_path, t.preview_path, Null >>,
                               fs, TRUE, 0, d)
         IN  [track |-> t, files |-> res.store, bucket |-> bk, log |-> res.log,
              exc |-> res.exc, commit |-> FALSE]
    ELSE IF m = "s3"
    THEN LET res == DeleteEach(<< t.s3_key, t.s3_mp3_key, t.s3_preview_key >>,
                               bk, FALSE, 0, d)
         IN  [track |-> t, files |-> fs, bucket |-> res.store, log |-> res.log,
              exc |-> res.exc, commit |-> FALSE]
    ELSE [track |-> [t EXCEPT !.original_file = Null, !.mp3_file = Null,
                              !.preview_file = Null],
          files |-> fs, bucket |-> bk, log |-> <<>>,
          exc |-> (d > 0), commit |-> (d = 0)]

(* a handler that logs and re-raises *)
except_Exception_reraise(exc) == exc

(* except Exception as e: logger.exception(...) -- nothing is re-raised *)
except_Exception(exc) == FALSE

storage_delete(t, m, fs, bk, d) ==
    LET res == storage_delete_try(t, m, fs, bk, d)
    IN  [track |-> res.track, files |-> res.files, bucket |-> res.bucket,
         log |-> res.log, commit |-> res.commit,
         raised |-> except_Exception(res.exc)]

----------------------------------------------------------------------------
(* db.session: the state of a request's Track object in its session *)

(* the tracks table after a commit of the session holding Track t of        *)
(* request r in state s                                                     *)
CommitRow(rws, r, s, t) == IF s \in {"new", "persistent"} THEN Put(rws, r, t) ELSE rws

session_commit(s) == IF s = "new" THEN "persistent" ELSE s

(* the handler without its rollback *)
session_rollback_skipped(s) == s

(* rollback expunges the objects INSERTed in the transaction; their         *)
(* attributes stay as they are in memory                                    *)
session_rollback(s) == IF s = "new" THEN "transient" ELSE s

----------------------------------------------------------------------------
(* utils.get_file_stream_response *)

Response(st, b) == [status |-> st, body |-> b]

NoResponse == [variant |-> "", status |-> "", body |-> Null]

(* utils.py imports neither send_file nor abort from flask: evaluating     *)
(* either name inside utils raises NameError                               *)
send_file(body) == Response("NameError", Null)

abort(code) == Response("NameError", Null)

(* the function ends without a return statement *)
ReturnsNone == Response("None", Null)

(* s3.get_object: a missing key raises botocore ClientError (NoSuchKey) *)
get_object(bk, key) ==
    IF key \in DOMAIN bk THEN send_file(bk[key]) ELSE Response("ClientError", Null)

get_file_stream_response(t, variant, m, fs, bk) ==
    IF m = "postgres"
    THEN IF variant = "mp3" /\ Truthy(t.mp3_file) THEN send_file(t.mp3_file)
         ELSE IF variant = "preview" /\ Truthy(t.preview_file) THEN send_file(t.preview_file)
         ELSE IF Truthy(t.original_file) THEN send_file(t.original_file)
         ELSE ReturnsNone
    ELSE IF m = "s3"
    THEN LET key == IF variant = "mp3" THEN Or(t.s3_mp3_key, t.s3_key)
                    ELSE IF variant = "preview" THEN Or(t.s3_preview_key, t.s3_mp3_key)
                    ELSE t.s3_key
         IN  IF ~Truthy(key) THEN abort(404) ELSE get_object(bk, key)
    ELSE LET path == IF variant = "mp3" THEN Or(t.mp3_path, t.file_path)
                     ELSE IF variant = "preview" THEN Or(t.preview_path, t.mp3_path)
                     ELSE t.file_path
         IN  IF ~Truthy(path) \/ path \notin DOMAIN fs THEN abort(404)
             ELSE send_file(fs[path])

Variants == {"mp3", "preview", "original"}

----------------------------------------------------------------------------
(* Inputs of the upload requests *)

(* every upload is made by the same logged-in user: uploads of different   *)
(* owners go to different directories and key prefixes                     *)
Users == {"u1"}

UploadNames ==
    { <<"s", ".", "M", "P", "3">>,
      <<".", "m", "p", "3">>,
      <<"s", ".", "e", "x", "e">>,
      <<"s", ".", "m", "p", "3", ".", "E", "X", "E">>,
      <<"m", "p", "3">> }

UploadAudio == {Corrupt, 10000, 90000}

NoInput == [filename |-> Null, audio |-> Corrupt]

NoWork == [ready |-> FALSE]

----------------------------------------------------------------------------
(* The follows table and the requests of app.follow and app.unfollow *)

UserIds == 1..NUsers

FollowIdle == [at |-> "idle", user |-> 0, target |-> 0, row |-> 0, status |-> ""]

InitFollows ==
    /\ follows = {}
    /\ nextFollowId = 1
    /\ fpc = [s \in Requests |-> FollowIdle]

----------------------------------------------------------------------------
(* The upload handler, app.upload, one request at a time or interleaved *)

Init ==
    /\ mode \in StorageModes
    /\ previewDuration = PREVIEW_DURATION
    /\ pc = [r \in Requests |-> "idle"]
    /\ inp = [r \in Requests |-> NoInput]
    /\ track = [r \in Requests |-> NoTrack]
    /\ sess = [r \in Requests |-> "none"]
    /\ rows = EmptyStore
    /\ files = EmptyStore
    /\ bucket = EmptyStore
    /\ calls = [r \in Requests |-> <<>>]
    /\ readBytes = [r \in Requests |-> FALSE]
    /\ work = [r \in Requests |-> NoWork]
    /\ sdCalls = [r \in Requests |-> 0]
    /\ sdRaised = [r \in Requests |-> FALSE]
    /\ excAt = [r \in Requests |-> ""]
    /\ resp = NoResponse
    /\ InitFollows

(* lines 143-153: the allow-list check, then Track(...), add, flush.  Form  *)
(* validation is an external collaborator: every submitted file reaches    *)
(* allowed_file                                                            *)
UploadBegin(r) ==
    /\ pc[r] = "idle"
    /\ \E u \in Users, fn \in UploadNames :
         /\ inp' = [inp EXCEPT ![r] = [filename |-> fn, audio |-> Corrupt]]
         /\ IF ~allowed_file(fn, ALLOWED_EXTENSIONS)
            THEN /\ pc' = [pc EXCEPT ![r] = "rejected"]
                 /\ UNCHANGED <<track, sess>>
            ELSE
                 /\ track' = [track EXCEPT ![r] = NewTrack(u)]
                 /\ sess' = [sess EXCEPT ![r] = "new"]
                 /\ pc' = [pc EXCEPT ![r] = "process"]
    /\ UNCHANGED <<mode, previewDuration, rows, files, bucket, calls, readBytes,
                   work, sdCalls, sdRaised, excAt, resp>>
    /\ UNCHANGED followVars

(* process_track_upload lines 58-75: name, read, decode, duration, the two  *)
(* exports.  a: the audio that file_storage.read() delivers; exportFails:   *)
(* one of the two audio.export calls raises                                 *)
TranscodeOf(r, audios) ==
    /\ pc[r] = "process"
    /\ \E a \in audios, exportFails \in BOOLEAN :
         LET filename == secure_filename(inp[r].filename)
             parts == rsplit(filename)
         IN  IF Len(parts) < 2
             THEN \* filename.rsplit(".", 1)[1] raises IndexError
                  /\ pc' = [pc EXCEPT ![r] = "except"]
                  /\ excAt' = [excAt EXCEPT ![r] = "name"]
                  /\ UNCHANGED <<inp, track, readBytes, work>>
             ELSE IF a = Corrupt
             THEN \* AudioSegment.from_file raises
                  /\ readBytes' = [readBytes EXCEPT ![r] = TRUE]
                  /\ pc' = [pc EXCEPT ![r] = "except"]
                  /\ excAt' = [excAt EXCEPT ![r] = "decode"]
                  /\ UNCHANGED <<inp, track, work>>
             ELSE /\ readBytes' = [readBytes EXCEPT ![r] = TRUE]
                  /\ inp' = [inp EXCEPT ![r].audio = a]
                  /\ track' = [track EXCEPT ![r].duration = a \div 1000,
                                            ![r].original_filename = filename]
                  /\ IF exportFails
                     THEN /\ pc' = [pc EXCEPT ![r] = "except"]
                          /\ excAt' = [excAt EXCEPT ![r] = "export"]
                          /\ UNCHANGED work
                     ELSE /\ work' = [work EXCEPT ![r] =
                                [ready |-> TRUE,
                                 ext |-> lower(parts[2]),
                                 orig |-> orig_bytes(a),
                                 mp3 |-> export_mp3(a, a),
                                 preview_ms |-> preview_seg(a, previewDuration),
                                 preview |-> export_mp3(a, preview_seg(a, previewDuration))]]
                          /\ pc' = [pc EXCEPT ![r] = "w1"]
                          /\ UNCHANGED excAt
    /\ UNCHANGED <<mode, previewDuration, sess, rows, files, bucket, calls,
                   sdCalls, sdRaised, resp>>
    /\ UNCHANGED followVars

Transcode(r) == TranscodeOf(r, UploadAudio)

(* process_track_upload lines 77-111, one storage write per step.  In       *)
(* postgres mode the three column assignments are one step.  Any mode       *)
(* other than "postgres" and "s3" writes to the local filesystem.           *)
(* the stream copy written before the original *)
WriteIndex_stream_first(label) ==
    CASE label = "w1" -> 2 [] label = "w2" -> 1 [] label = "w3" -> 3

WriteIndex(label) == CASE label = "w1" -> 1 [] label = "w2" -> 2 [] label = "w3" -> 3

WriteBody(w, n) == CASE n = 1 -> w.orig [] n = 2 -> w.mp3 [] n = 3 -> w.preview

(* each locator assigned as soon as its own write returned *)
LocatorsAfterEachWrite(t, m, n, target) ==
    IF m = "s3"
    THEN CASE n = 1 -> [t EXCEPT !.s3_key = target[1]]
           [] n = 2 -> [t EXCEPT !.s3_mp3_key = target[2]]
           [] n = 3 -> [t EXCEPT !.s3_preview_key = target[3]]
    ELSE CASE n = 1 -> [t EXCEPT !.file_path = target[1]]
           [] n = 2 -> [t EXCEPT !.mp3_path = target[2]]
           [] n = 3 -> [t EXCEPT !.preview_path = target[3]]

(* lines 93-95 and 109-111: the locators are assigned after the third     *)
(* write returned; t is the track after the n-th write succeeded            *)
LocatorsAfterWrite(t, m, n, target) ==
    IF n < 3 THEN t
    ELSE IF m = "s3"
    THEN [t EXCEPT !.s3_key = target[1], !.s3_mp3_key = target[2],
                   !.s3_preview_key = target[3]]
    ELSE [t EXCEPT !.file_path = target[1], !.mp3_path = target[2],
                   !.preview_path = target[3]]

Write(r) ==
    /\ pc[r] \in {"w1", "w2", "w3"}
    /\ LET n == WriteIndex(pc[r])
           w == work[r]
           T(k) == WriteTarget(mode, r, track[r].owner_id, w.ext, k)
       IN  IF mode = "postgres"
           THEN /\ track' = [track EXCEPT ![r].original_file = w.orig,
                                          ![r].mp3_file = w.mp3,
                                          ![r].preview_file = w.preview]
                /\ pc' = [pc EXCEPT ![r] = "flush"]
                /\ UNCHANGED <<files, bucket, calls, excAt>>
           ELSE \E ok \in BOOLEAN :
                  IF ~ok
                  THEN /\ calls' = [calls EXCEPT ![r] = Append(@, PutCall(T(n), FALSE))]
                       /\ pc' = [pc EXCEPT ![r] = "except"]
                       /\ excAt' = [excAt EXCEPT ![r] = pc[r]]
                       /\ UNCHANGED <<track, files, bucket>>
                  ELSE /\ calls' = [calls EXCEPT ![r] = Append(@, PutCall(T(n), TRUE))]
                       /\ UNCHANGED excAt
                       /\ IF mode = "s3"
                          THEN /\ bucket' = Put(bucket, T(n), WriteBody(w, n))
                               /\ UNCHANGED files
                          ELSE /\ files' = Put(files, T(n), WriteBody(w, n))
                               /\ UNCHANGED bucket
                       /\ pc' = [pc EXCEPT ![r] = CASE n = 1 -> "w2" [] n = 2 -> "w3"
                                                    [] n = 3 -> "flush"]
                       /\ track' = [track EXCEPT ![r] =
                                       LocatorsAfterWrite(@, mode, n, << T(1), T(2), T(3) >>)]
    /\ UNCHANGED <<mode, previewDuration, inp, sess, rows, readBytes, work,
                   sdCalls, sdRaised, resp>>
    /\ UNCHANGED followVars

(* process_track_upload lines 112-115: mime type, session.add, flush *)
Flush(r) ==
    /\ pc[r] = "flush"
    /\ track' = [track EXCEPT ![r].mime_type = "audio/mpeg"]
    /\ \E ok \in BOOLEAN :
         /\ pc' = [pc EXCEPT ![r] = IF ok THEN "commit" ELSE "except"]
         /\ excAt' = [excAt EXCEPT ![r] = IF ok THEN @ ELSE "flush"]
    /\ UNCHANGED <<mode, previewDuration, inp, sess, rows, files, bucket, calls,
                   readBytes, work, sdCalls, sdRaised, resp>>
    /\ UNCHANGED followVars

(* app.upload line 157: db.session.commit() *)
Commit(r) ==
    /\ pc[r] = "commit"
    /\ \E ok \in BOOLEAN :
         IF ok
         THEN /\ sess' = [sess EXCEPT ![r] = session_commit(@)]
              /\ rows' = CommitRow(rows, r, sess[r], track[r])
              /\ pc' = [pc EXCEPT ![r] = "done"]
              /\ UNCHANGED excAt
         ELSE /\ pc' = [pc EXCEPT ![r] = "except"]
              /\ excAt' = [excAt EXCEPT ![r] = "commit"]
              /\ UNCHANGED <<sess, rows>>
    /\ UNCHANGED <<mode, previewDuration, inp, track, files, bucket, calls,
                   readBytes, work, sdCalls, sdRaised, resp>>
    /\ UNCHANGED followVars

(* app.upload lines 160-165: rollback, then storage_delete(track, app).    *)
(* d: which of the backend deletes (in postgres mode: the commit) fails    *)
Except(r) ==
    /\ pc[r] = "except"
    /\ \E d \in 0..3 :
         LET s1 == session_rollback(sess[r])
             sd == storage_delete(track[r], mode, files, bucket, d)
         IN  /\ track' = [track EXCEPT ![r] = sd.track]
             /\ files' = sd.files
             /\ bucket' = sd.bucket
             /\ calls' = [calls EXCEPT ![r] = @ \o sd.log]
             /\ sess' = [sess EXCEPT ![r] = IF sd.commit THEN session_commit(s1) ELSE s1]
             /\ rows' = IF sd.commit THEN CommitRow(rows, r, s1, sd.track) ELSE rows
             /\ sdCalls' = [sdCalls EXCEPT ![r] = @ + 1]
             /\ sdRaised' = [sdRaised EXCEPT ![r] = @ \/ sd.raised]
             /\ pc' = [pc EXCEPT ![r] = "failed"]
    /\ UNCHANGED <<mode, previewDuration, inp, readBytes, work, excAt, resp>>
    /\ UNCHANGED followVars

Next ==
    \E r \in Requests :
        \/ UploadBegin(r)
        \/ Transcode(r)
        \/ Write(r)
        \/ Flush(r)
        \/ Commit(r)
        \/ Except(r)

Spec == Init /\ [][Next]_vars

----------------------------------------------------------------------------
(* One upload under every configured preview length and clips around it *)

ClipAudio == {Corrupt} \cup { 500 * k : k \in 0..(2 * MaxPreviewSeconds + 2) }

InitPreview ==
    /\ mode \in StorageModes
    /\ previewDuration \in 0..MaxPreviewSeconds
    /\ pc = [r \in Requests |-> "idle"]
    /\ inp = [r \in Requests |-> NoInput]
    /\ track = [r \in Requests |-> NoTrack]
    /\ sess = [r \in Requests |-> "none"]
    /\ rows = EmptyStore
    /\ files = EmptyStore
    /\ bucket = EmptyStore
    /\ calls = [r \in Requests |-> <<>>]
    /\ readBytes = [r \in Requests |-> FALSE]
    /\ work = [r \in Requests |-> NoWork]
    /\ sdCalls = [r \in Requests |-> 0]
    /\ sdRaised = [r \in Requests |-> FALSE]
    /\ excAt = [r \in Requests |-> ""]
    /\ resp = NoResponse
    /\ InitFollows

TranscodeClip == TranscodeOf(1, ClipAudio)

NextPreview ==
    \/ UploadBegin(1)
    \/ TranscodeClip
    \/ Write(1)
    \/ Flush(1)
    \/ Commit(1)
    \/ Except(1)

SpecPreview == InitPreview /\ [][NextPreview]_vars

----------------------------------------------------------------------------
(* get_file_stream_response and storage_delete applied to a tracks row in   *)
(* any state of its nine locator columns                                    *)

MaxCalls == 2

ArgOwner == "u1"
ArgExt == <<"m", "p", "3">>
ArgAudio == CHOOSE a \in UploadAudio : \A x \in UploadAudio : x <= a

ArgBody(n) ==
    CASE n = 1 -> orig_bytes(ArgAudio)
      [] n = 2 -> export_mp3(ArgAudio, ArgAudio)
      [] n = 3 -> export_mp3(ArgAudio, preview_seg(ArgAudio, PREVIEW_DURATION))

OneOrNull(v) == {Null, v}

(* the states of one set of three locator columns: every mix of set and   *)
(* null for the set the mode reads, all null or all set for the others   *)
Columns(v, mixed) ==
    IF mixed THEN OneOrNull(v[1]) \X OneOrNull(v[2]) \X OneOrNull(v[3])
    ELSE { <<Null, Null, Null>>, v }

ArgTargets(m) == << WriteTarget(m, 1, ArgOwner, ArgExt, 1),
                    WriteTarget(m, 1, ArgOwner, ArgExt, 2),
                    WriteTarget(m, 1, ArgOwner, ArgExt, 3) >>

ArgTracks(m) ==
    { [ NewTrack(ArgOwner) EXCEPT
          !.duration = ArgAudio \div 1000,
          !.original_filename = <<"s", ".", "m", "p", "3">>,
          !.file_path = l[1], !.mp3_path = l[2], !.preview_path = l[3],
          !.original_file = b[1], !.mp3_file = b[2], !.preview_file = b[3],
          !.s3_key = k[1], !.s3_mp3_key = k[2], !.s3_preview_key = k[3] ] :
      l \in Columns(ArgTargets("local"), m \notin {"s3", "postgres"}),
      b \in Columns(<< ArgBody(1), ArgBody(2), ArgBody(3) >>, m = "postgres"),
      k \in Columns(ArgTargets("s3"), m = "s3") }

(* the objects present in a backend: any subset of the three of the row *)
ArgStores(m) ==
    { [ x \in { WriteTarget(m, 1, ArgOwner, ArgExt, n) : n \in S } |->
          ArgBody(CHOOSE n \in S : WriteTarget(m, 1, ArgOwner, ArgExt, n) = x) ] :
      S \in SUBSET {1, 2, 3} }

InitArg ==
    /\ mode \in StorageModes
    /\ previewDuration = PREVIEW_DURATION
    /\ pc = [r \in Requests |-> "arg"]
    /\ inp = [r \in Requests |-> NoInput]
    /\ \E t \in ArgTracks(mode) :
         /\ track = [r \in Requests |-> IF r = 1 THEN t ELSE NoTrack]
         /\ rows = Put(EmptyStore, 1, t)
    /\ sess = [r \in Requests |-> IF r = 1 THEN "persistent" ELSE "none"]
    /\ files \in (IF mode \in {"s3", "postgres"} THEN {EmptyStore} ELSE ArgStores("local"))
    /\ bucket \in (IF mode = "s3" THEN ArgStores("s3") ELSE {EmptyStore})
    /\ calls = [r \in Requests |-> <<>>]
    /\ readBytes = [r \in Requests |-> FALSE]
    /\ work = [r \in Requests |-> NoWork]
    /\ sdCalls = [r \in Requests |-> 0]
    /\ sdRaised = [r \in Requests |-> FALSE]
    /\ excAt = [r \in Requests |-> ""]
    /\ resp = NoResponse
    /\ InitFollows

(* app.stream, app.preview and any other caller of the function *)
CallGet ==
    /\ pc[1] = "arg"
    /\ \E v \in Variants :
         LET res == get_file_stream_response(track[1], v, mode, files, bucket)
         IN  resp' = [variant |-> v, status |-> res.status, body |-> res.body]
    /\ UNCHANGED <<mode, previewDuration, pc, inp, track, sess, rows, files, bucket,
                   calls, readBytes, work, sdCalls, sdRaised, excAt>>
    /\ UNCHANGED followVars

CallStorageDelete ==
    /\ pc[1] = "arg"
    /\ sdCalls[1] < MaxCalls
    /\ \E d \in 0..3 :
         LET sd == storage_delete(track[1], mode, files, bucket, d)
         IN  /\ track' = [track EXCEPT ![1] = sd.track]
             /\ files' = sd.files
             /\ bucket' = sd.bucket
             /\ calls' = [calls EXCEPT ![1] = @ \o sd.log]
             /\ rows' = IF sd.commit THEN CommitRow(rows, 1, sess[1], sd.track) ELSE rows
             /\ sdCalls' = [sdCalls EXCEPT ![1] = @ + 1]
             /\ sdRaised' = [sdRaised EXCEPT ![1] = @ \/ sd.raised]
    /\ UNCHANGED <<mode, previewDuration, pc, inp, sess, readBytes, work, excAt,
                   resp>>
    /\ UNCHANGED followVars

NextArg == CallGet \/ CallStorageDelete

SpecArg == InitArg /\ [][NextArg]_vars

----------------------------------------------------------------------------
(* app.follow and app.unfollow: each request is one query and, when the    *)
(* query allows it, one commit; requests of different workers interleave   *)
(* between the two.  The Follow model declares a primary key only, so the  *)
(* table accepts any row                                                   *)

Follow(id, follower, followed) ==
    [id |-> id, follower_id |-> follower, followed_id |-> followed]

filter_by(table, follower, followed) ==
    {f \in table : f.follower_id = follower /\ f.followed_id = followed}

FollowReturn(status, user, target) ==
    [FollowIdle EXCEPT !.status = status, !.user = user, !.target = target]

PendingInserts == Cardinality({s \in Requests : fpc[s].at = "insert"})

(* lines 119-123: get_or_404, the self-follow check, the existence check *)
FollowQuery(s) ==
    /\ fpc[s].at = "idle"
    /\ \E cu \in UserIds, user_id \in UserIds :
         IF user_id = cu
         THEN fpc' = [fpc EXCEPT ![s] = FollowReturn("400", cu, user_id)]
         ELSE IF filter_by(follows, cu, user_id) # {}
         THEN fpc' = [fpc EXCEPT ![s] = FollowReturn("already_following", cu, user_id)]
         ELSE /\ nextFollowId + PendingInserts <= MaxFollowRows
              /\ fpc' = [fpc EXCEPT ![s] = [at |-> "insert", user |-> cu,
                                            target |-> user_id, row |-> 0,
                                            status |-> ""]]
    /\ UNCHANGED <<follows, nextFollowId>>
    /\ UNCHANGED uploadVars

(* lines 124-127: Follow(...), add, commit *)
FollowCommit(s) ==
    /\ fpc[s].at = "insert"
    /\ follows' = follows \cup {Follow(nextFollowId, fpc[s].user, fpc[s].target)}
    /\ nextFollowId' = nextFollowId + 1
    /\ fpc' = [fpc EXCEPT ![s] = FollowReturn("ok", fpc[s].user, fpc[s].target)]
    /\ UNCHANGED uploadVars

(* lines 132-134: get_or_404, then .first() of a query without an order:  *)
(* any of the matching rows                                                *)
UnfollowQuery(s) ==
    /\ fpc[s].at = "idle"
    /\ \E cu \in UserIds, user_id \in UserIds :
         IF filter_by(follows, cu, user_id) = {}
         THEN fpc' = [fpc EXCEPT ![s] = FollowReturn("ok", cu, user_id)]
         ELSE \E f \in filter_by(follows, cu, user_id) :
                 fpc' = [fpc EXCEPT ![s] = [at |-> "delete", user |-> cu,
                                            target |-> user_id, row |-> f.id,
                                            status |-> ""]]
    /\ UNCHANGED <<follows, nextFollowId>>
    /\ UNCHANGED uploadVars

(* lines 135-137: delete, commit.  A row another request deleted in the    *)
(* meantime makes the commit raise; the table is the same either way       *)
UnfollowCommit(s) ==
    /\ fpc[s].at = "delete"
    /\ follows' = {f \in follows : f.id # fpc[s].row}
    /\ fpc' = [fpc EXCEPT ![s] =
                 FollowReturn(IF \E f \in follows : f.id = fpc[s].row
                              THEN "ok" ELSE "StaleDataError",
                              fpc[s].user, fpc[s].target)]
    /\ UNCHANGED nextFollowId
    /\ UNCHANGED uploadVars

NextFollow ==
    \E s \in Requests :
        FollowQuery(s) \/ FollowCommit(s) \/ UnfollowQuery(s) \/ UnfollowCommit(s)

SpecFollow == Init /\ [][NextFollow]_vars

----------------------------------------------------------------------------
(* Vocabulary of the properties *)

Indices(r, kind) == { i \in 1..Len(calls[r]) : calls[r][i].op = kind }

(* names this request's ingestion wrote successfully / asked to delete *)
Written(r) == { calls[r][i].loc : i \in { j \in Indices(r, "put") : calls[r][j].ok } }

PutNames(r) == { calls[r][i].loc : i \in Indices(r, "put") }

DeleteNames(r) == { calls[r][i].loc : i \in Indices(r, "delete") }

SomeDeleteFailed(r) == \E i \in Indices(r, "delete") : ~calls[r][i].ok

Stored == DOMAIN files \cup DOMAIN bucket

ActiveSet(t, m) ==
    CASE m = "postgres" -> BlobSet(t)
      [] m = "s3" -> S3Set(t)
      [] OTHER -> LocalSet(t)

InactiveSets(t, m) ==
    CASE m = "postgres" -> LocalSet(t) \cup S3Set(t)
      [] m = "s3" -> LocalSet(t) \cup BlobSet(t)
      [] OTHER -> BlobSet(t) \cup S3Set(t)

(* the locator columns of the mode's set, as (original, stream, preview) *)
ActiveColumns(t, m) ==
    CASE m = "postgres" -> << t.original_file, t.mp3_file, t.preview_file >>
      [] m = "s3" -> << t.s3_key, t.s3_mp3_key, t.s3_preview_key >>
      [] OTHER -> << t.file_path, t.mp3_path, t.preview_path >>

----------------------------------------------------------------------------
(* C1: local and s3 backends: when the second or third storage write of an *)
(* ingestion fails, then once the handler has finished (rollback, then     *)
(* storage_delete) no blob written by that ingestion is left in the        *)
(* backend and none of the track's locator fields is populated.            *)
C1_NoOrphanAfterWriteFailure ==
    \A r \in Requests :
        (mode \in {"local", "s3"} /\ pc[r] = "failed" /\ excAt[r] \in {"w2", "w3"})
        => /\ Written(r) \cap Stored = {}
           /\ ActiveSet(track[r], mode) = {Null}

(* C2: on every backend, when process_track_upload has returned, normally  *)
(* or by raising, the locator fields of the backend's set are all null or  *)
(* all non-null; on normal return they are all non-null and the six        *)
(* fields of the other two backends are null.                              *)
C2_LocatorsAllOrNone ==
    \A r \in Requests :
        mode \in Backends =>
          /\ pc[r] \in {"except", "commit"} =>
               \/ ActiveSet(track[r], mode) = {Null}
               \/ Null \notin ActiveSet(track[r], mode)
          /\ pc[r] = "commit" =>
               /\ Null \notin ActiveSet(track[r], mode)
               /\ InactiveSets(track[r], mode) = {Null}

(* a call that raised out of the third write next to one that returned *)
C2_Witness ==
    /\ mode \in {"local", "s3"}
    /\ \E r, q \in Requests :
         /\ pc[r] = "except" /\ excAt[r] = "w3" /\ Cardinality(Written(r)) = 2
         /\ pc[q] = "commit"

Extension(fn) ==
    IF HasDot(fn) THEN lower(SubSeq(fn, LastDot(fn) + 1, Len(fn))) ELSE Null

(* C4: an upload whose extension is not in ALLOWED_EXTENSIONS is rejected   *)
(* before process_track_upload: no bytes are read, no Track is created or  *)
(* added to the session, no backend write or delete is issued.             *)
C4_DisallowedExtensionRejected ==
    \A r \in Requests :
        (pc[r] # "idle" /\ Extension(inp[r].filename) \notin ALLOWED_EXTENSIONS)
        => /\ pc[r] = "rejected"
           /\ ~readBytes[r]
           /\ ~track[r].exists
           /\ sess[r] = "none"
           /\ calls[r] = <<>>
           /\ r \notin DOMAIN rows

C4_Witness ==
    \E r, q \in Requests :
        /\ pc[r] = "rejected"
        /\ inp[r].filename = <<"s", ".", "m", "p", "3", ".", "E", "X", "E">>
        /\ pc[q] = "done"

(* the bytes a locator of the mode's backend leads to *)
BlobAt(loc) ==
    CASE mode = "postgres" -> loc
      [] mode = "s3" -> bucket[loc]
      [] OTHER -> files[loc]

Available(loc) ==
    /\ loc # Null
    /\ CASE mode = "postgres" -> TRUE
         [] mode = "s3" -> loc \in DOMAIN bucket
         [] OTHER -> loc \in DOMAIN files

(* C5: on each of the three backends, the preview variant of a track whose *)
(* preview locator is null and whose stream locator is set is answered     *)
(* with the stream variant's bytes.                                        *)
C5_PreviewFallsBackToStream ==
    LET col == ActiveColumns(track[1], mode)
    IN  (mode \in Backends /\ pc[1] = "arg" /\ resp.variant = "preview"
           /\ col[3] = Null /\ Available(col[2]))
        => /\ resp.status = "200"
           /\ resp.body = BlobAt(col[2])

(* C6: on each of the three backends, the stream variant of a track whose  *)
(* stream locator is null, and the original variant of a track whose       *)
(* original locator is null, fail with 404 whatever the other locators     *)
(* hold.                                                                   *)
C6_StreamAndOriginalHaveNoFallback ==
    LET col == ActiveColumns(track[1], mode)
    IN  (mode \in Backends /\ pc[1] = "arg"
           /\ \/ resp.variant = "mp3" /\ col[2] = Null
              \/ resp.variant = "original" /\ col[1] = Null)
        => resp.status = "404"

(* C7: storage_delete never propagates an exception: not when a backend    *)
(* delete fails, not on a second call for the same track, not for a track  *)
(* whose blobs were never written.                                         *)
C7_StorageDeleteNeverRaises ==
    \A r \in Requests : ~sdRaised[r]

(* a second call made after a call in which a backend delete failed *)
C7_Witness ==
    /\ sdCalls[1] = 2
    /\ SomeDeleteFailed(1)
    /\ \E i \in Indices(1, "delete") : calls[1][i].ok

(* C8: two ingestions, also interleaved and by the same owner with the     *)
(* same file name, write disjoint sets of paths or keys; none overwrites   *)
(* a blob of the other, and the cleanup of one deletes no blob of the      *)
(* other: the blobs of an ingestion that returned stay as they were        *)
(* written until its own cleanup.                                          *)
C8_IngestionsUseDisjointNames ==
    /\ \A r, q \in Requests :
         r # q => /\ PutNames(r) \cap PutNames(q) = {}
                  /\ DeleteNames(r) \cap PutNames(q) = {}
    /\ \A r \in Requests :
         (mode # "postgres" /\ pc[r] \in {"commit", "done"})
         => \A n \in 1..3 :
              LET k == WriteTarget(mode, r, track[r].owner_id, work[r].ext, n)
              IN  /\ k \in Stored
                  /\ (IF mode = "s3" THEN bucket[k] ELSE files[k]) = WriteBody(work[r], n)

C8_Witness ==
    \E r, q \in Requests :
        /\ mode \in {"local", "s3"}
        /\ r # q
        /\ inp[r].filename = inp[q].filename
        /\ track[r].exists /\ track[q].exists /\ track[r].owner_id = track[q].owner_id
        /\ pc[r] = "failed" /\ Cardinality(DeleteNames(r)) = 3
        /\ pc[q] = "done"

(* C9: on each of the three backends, once process_track_upload has        *)
(* succeeded, get_file_stream_response answers the original, stream and    *)
(* preview variants with the upload's bytes, the transcoded bytes and the  *)
(* preview bytes the ingestion stored.                                     *)
C9_RoundTrip ==
    \A r \in Requests :
        (mode \in Backends /\ pc[r] \in {"commit", "done"})
        => \A n \in 1..3 :
             get_file_stream_response(track[r],
                                      << "original", "mp3", "preview" >>[n],
                                      mode, files, bucket)
             = Response("200", WriteBody(work[r], n))

(* C10: for a decoded track of T milliseconds and PREVIEW_DURATION of P    *)
(* seconds the preview segment lasts min(P * 1000, T) milliseconds; a      *)
(* track shorter than P seconds is its own preview, also when T = 0.       *)
C10_PreviewDuration ==
    \A r \in Requests :
        work[r].ready =>
          /\ work[r].preview_ms = Min(previewDuration * 1000, inp[r].audio)
          /\ inp[r].audio < previewDuration * 1000 =>
               /\ work[r].preview_ms = inp[r].audio
               /\ work[r].preview = work[r].mp3

C10_Witness ==
    \E r \in Requests :
        /\ work[r].ready
        /\ inp[r].audio > 0
        /\ inp[r].audio < previewDuration * 1000
        /\ work[r].preview_ms = inp[r].audio

(* C11: duration, original_filename, mime_type and the locators are set     *)
(* together, once the three writes have succeeded: an ingestion that fails *)
(* at decode, at an export or at a storage write leaves all of them at     *)
(* their values from before the ingestion.                                 *)
C11_FailedIngestionLeavesTrackUntouched ==
    \A r \in Requests :
        (pc[r] = "except" /\ excAt[r] \in {"decode", "export", "w1", "w2", "w3"})
        => track[r] = NewTrack(track[r].owner_id)

(* which variant a path or key names, read off the name itself *)
NameSuffix(n) == CASE n = 1 -> "_orig." [] n = 2 -> "_stream.mp3" [] n = 3 -> "_preview.mp3"

RoleOfName(k) ==
    IF k[1] = "tracks"
    THEN CASE k[4] = "/original." -> 1
           [] k[4] = "/stream.mp3" -> 2
           [] k[4] = "/preview.mp3" -> 3
    ELSE CHOOSE n \in 1..3 :
           \E r \in Requests, j \in 1..3 : k[3] = uuid4(r, j) \o NameSuffix(n)

(* C12: local and s3 backends: an ingestion issues no storage write before *)
(* decoding, transcoding and preview extraction have all succeeded (a      *)
(* decode or export failure leaves zero writes), and its writes are issued *)
(* in the order original, stream, preview.                                 *)
C12_WritesAfterTranscodeInOrder ==
    \A r \in Requests :
        mode \in {"local", "s3"} =>
          /\ Indices(r, "put") # {} => work[r].ready
          /\ excAt[r] \in {"name", "decode", "export"} => Indices(r, "put") = {}
          /\ \A i \in Indices(r, "put") :
               /\ i <= 3
               /\ RoleOfName(calls[r][i].loc) = i
               /\ \A j \in 1..(i-1) : calls[r][j].op = "put" /\ calls[r][j].ok

(* an ingestion with its three writes next to one stopped by an export *)
C12_Witness ==
    \E r, q \in Requests :
        /\ mode \in {"local", "s3"}
        /\ Cardinality(Written(r)) = 3
        /\ excAt[q] = "export" /\ pc[q] = "failed" /\ calls[q] = <<>>

VariantColumn(v) == CASE v = "original" -> 1 [] v = "mp3" -> 2 [] v = "preview" -> 3

(* C13: local and s3 backends: retrieval of a variant whose locator is set *)
(* but whose object is missing from the backend (for example removed by    *)
(* storage_delete) fails with 404, not with another error or a success.    *)
C13_MissingObjectIsNotFound ==
    \A r \in Requests, v \in Variants :
        (mode \in {"local", "s3"} /\ track[r].exists)
        => LET loc == ActiveColumns(track[r], mode)[VariantColumn(v)]
           IN  (loc # Null /\ ~Available(loc))
               => get_file_stream_response(track[r], v, mode, files, bucket).status = "404"

(* C14: for every value of STORAGE_MODE, also one that is none of "local", *)
(* "s3" and "postgres", ingestion, retrieval and storage_delete work on    *)
(* the same backend: what an ingestion wrote is found there by retrieval   *)
(* (no missing-key error, no empty answer) and is removed from there by    *)
(* the storage_delete of the handler when none of its deletes fails.       *)
C14_OneBackendForEveryMode ==
    \A r \in Requests :
        /\ pc[r] \in {"commit", "done"} =>
             \A v \in Variants :
                 get_file_stream_response(track[r], v, mode, files, bucket).status
                     \notin {"ClientError", "None"}
        /\ (pc[r] = "failed" /\ excAt[r] \in {"flush", "commit"} /\ ~SomeDeleteFailed(r))
           => Written(r) \cap Stored = {}

(* C15: in every reachable state of the follows table, also when the       *)
(* queries and commits of concurrent follow and unfollow requests          *)
(* interleave, there is at most one Follow row per (follower, followed)    *)
(* pair and no row whose follower is its followed user                     *)
C15_OneRowPerFollowPair ==
    \A a, b \in UserIds :
        /\ Cardinality(filter_by(follows, a, b)) <= 1
        /\ a = b => filter_by(follows, a, b) = {}

====
